---- MODULE Spec2Model ----
(***************************************************************************)
(* Wormhole gateway, instruction `initialize`                              *)
(* (cross-chain/solana/programs/wormhole-gateway/src/processor/            *)
(* initialize.rs).  One action is one transaction: the instruction data is *)
(* decoded, the accounts of `Initialize` are validated in the order the    *)
(* Accounts derive runs them (plain fields, then the `init` fields, then   *)
(* the constraints of the plain fields), the handler runs, and the         *)
(* transaction's writes are kept only if every step succeeded.             *)
(***************************************************************************)
EXTENDS Integers, Sequences, FiniteSets, TLC

----------------------------------------------------------------------------
(* Bounds of the model *)

\* number of correct Initialize calls in one behaviour
MaxAttempts == 2
\* number of Initialize transactions that end Ok in one behaviour
MaxCommits == 2
\* number of ways in which one call departs from the correct call (a role presented with
\* another account, the signature missing, the argument missing)
MaxWrong == 1

----------------------------------------------------------------------------
(* Programs and seeds *)

GATEWAY == "wormhole_gateway"
TBTC == "tbtc"
TOKEN_BRIDGE == "token_bridge"
SYSTEM_PROGRAM == "system_program"
TOKEN_PROGRAM == "token_program"

TBTC_FOREIGN_TOKEN_CHAIN == 2

TBTC_FOREIGN_TOKEN_ADDRESS ==
    << 0, 0, 0, 0, 0, 0, 0, 0, 0, 0, 0, 0, 24, 8, 79, 186, 102, 106,
       51, 211, 117, 146, 250, 38, 51, 253, 73, 167, 77, 217, 58, 136 >>

\* b"custodian"
CUSTODIAN_SEED_PREFIX == << 99, 117, 115, 116, 111, 100, 105, 97, 110 >>
\* b"tbtc-mint"
SEED_PREFIX_TBTC_MINT == << 116, 98, 116, 99, 45, 109, 105, 110, 116 >>
\* b"wrapped"
WRAPPED_MINT_SEED_PREFIX == << 119, 114, 97, 112, 112, 101, 100 >>
\* b"wrapped-token"
WRAPPED_TOKEN_SEED == << 119, 114, 97, 112, 112, 101, 100, 45, 116, 111, 107, 101, 110 >>
\* b"sender"
SEED_PREFIX_SENDER == << 115, 101, 110, 100, 101, 114 >>
\* b"redeemer"
SEED_PREFIX_REDEEMER == << 114, 101, 100, 101, 101, 109, 101, 114 >>

\* u8::to_be_bytes: the one byte of the value
ToBeBytes(n) == << n % 256 >>

CustodianSeeds == << CUSTODIAN_SEED_PREFIX >>
TbtcMintSeeds == << SEED_PREFIX_TBTC_MINT >>
WrappedMintSeeds ==
    << WRAPPED_MINT_SEED_PREFIX, ToBeBytes(TBTC_FOREIGN_TOKEN_CHAIN), TBTC_FOREIGN_TOKEN_ADDRESS >>
WrappedTokenSeeds == << WRAPPED_TOKEN_SEED >>
SenderSeeds == << SEED_PREFIX_SENDER >>
RedeemerSeeds == << SEED_PREFIX_REDEEMER >>

----------------------------------------------------------------------------
(* Program derived addresses.  The hash is kept symbolic: an address is    *)
(* the triple it was hashed from, so two addresses are equal exactly when  *)
(* program, seeds and bump are.  Whether a candidate is a usable address   *)
(* (off the curve) is a fixed function of the hashed bytes.                *)

MAX_BUMP == 255

\* the number of bytes hashed for the seeds
RECURSIVE SeedBytes(_, _)
SeedBytes(seeds, n) == IF n = 0 THEN 0 ELSE Len(seeds[n]) + SeedBytes(seeds, n - 1)

\* stands for the curve test on the hash of seeds, bump and program id
OffCurve(seeds, bump, program) ==
    (SeedBytes(seeds, Len(seeds)) + Len(program) + bump) % 3 # 0

NoAddress == [program |-> "", seeds |-> << >>]

\* Pubkey::create_program_address
CreateProgramAddress(seeds, bump, program) ==
    IF OffCurve(seeds, bump, program)
    THEN [program |-> program, seeds |-> Append(seeds, << bump >>)]
    ELSE NoAddress

RECURSIVE FindFrom(_, _, _)
FindFrom(seeds, bump, program) ==
    IF OffCurve(seeds, bump, program) \/ bump = 0
    THEN [address |-> CreateProgramAddress(seeds, bump, program), bump |-> bump]
    ELSE FindFrom(seeds, bump - 1, program)

\* Pubkey::find_program_address: the first bump from 255 downwards that is off the curve
FindProgramAddress(seeds, program) == FindFrom(seeds, MAX_BUMP, program)

\* an address that is not derived: a wallet or any account made from a keypair
Keypair(n) == [program |-> "keypair", seeds |-> << << n >> >>]

----------------------------------------------------------------------------
(* The addresses the constraints of `Initialize` derive, and the others a  *)
(* caller can present instead.                                             *)

CustodianPda == FindProgramAddress(CustodianSeeds, GATEWAY)
TbtcMintPda == FindProgramAddress(TbtcMintSeeds, TBTC)
WrappedMintPda == FindProgramAddress(WrappedMintSeeds, GATEWAY)
WrappedTokenPda == FindProgramAddress(WrappedTokenSeeds, GATEWAY)
SenderPda == FindProgramAddress(SenderSeeds, GATEWAY)
RedeemerPda == FindProgramAddress(RedeemerSeeds, GATEWAY)

\* the same seeds in the Token Bridge program's namespace
BridgeWrappedMintPda == FindProgramAddress(WrappedMintSeeds, TOKEN_BRIDGE)
BridgeSenderPda == FindProgramAddress(SenderSeeds, TOKEN_BRIDGE)
BridgeRedeemerPda == FindProgramAddress(RedeemerSeeds, TOKEN_BRIDGE)

Alice == Keypair(1)
Bob == Keypair(2)
\* a token mint that has nothing to do with the gateway
OtherMint == Keypair(3)
\* an address at which no account exists
Vacant == Keypair(4)

Wallets == {Alice, Bob}

Roles ==
    {"custodian", "tbtc_mint", "wrapped_tbtc_mint", "wrapped_tbtc_token",
     "token_bridge_sender", "token_bridge_redeemer"}

\* the address the constraint of each account field derives
Derived(role) ==
    CASE role = "custodian" -> CustodianPda.address
      [] role = "tbtc_mint" -> TbtcMintPda.address
      [] role = "wrapped_tbtc_mint" -> WrappedMintPda.address
      [] role = "wrapped_tbtc_token" -> WrappedTokenPda.address
      [] role = "token_bridge_sender" -> SenderPda.address
      [] role = "token_bridge_redeemer" -> RedeemerPda.address

----------------------------------------------------------------------------
(* The ledger: the accounts that exist, by kind.                           *)

\* a custodian account right after `init` created it: allocated, all zero
ZeroCustodian ==
    [bump |-> 0, authority |-> NoAddress, tbtc_mint |-> NoAddress,
     wrapped_tbtc_mint |-> NoAddress, wrapped_tbtc_token |-> NoAddress,
     token_bridge_sender |-> NoAddress, token_bridge_sender_bump |-> 0,
     token_bridge_redeemer |-> NoAddress, token_bridge_redeemer_bump |-> 0,
     minting_limit |-> << 0, 0, 0, 0, 0, 0, 0, 0 >>]

EmptyLedger == [mints |-> {}, tokens |-> {}, custodians |-> {}]

TokenAddresses(l) == {t.address : t \in l.tokens}
CustodianAddresses(l) == {c.address : c \in l.custodians}

Exists(l, a) == a \in l.mints \cup TokenAddresses(l) \cup CustodianAddresses(l)

Owner(l, a) ==
    IF a \in l.mints \cup TokenAddresses(l) THEN TOKEN_PROGRAM
    ELSE IF a \in CustodianAddresses(l) THEN GATEWAY
    ELSE SYSTEM_PROGRAM

----------------------------------------------------------------------------
(* Outcomes of a transaction: Ok, or the error that aborted it.            *)

Ok == "Ok"
InstructionDidNotDeserialize == "InstructionDidNotDeserialize"
AccountNotSigner == "AccountNotSigner"
AccountNotInitialized == "AccountNotInitialized"
AccountOwnedByWrongProgram == "AccountOwnedByWrongProgram"
InvalidAccountData == "InvalidAccountData"
ConstraintSeeds == "ConstraintSeeds"
AccountAlreadyInUse == "AccountAlreadyInUse"
\* a panic inside the program
ProgramFailedToComplete == "ProgramFailedToComplete"

\* the first error of a sequence of check results, Ok if there is none
RECURSIVE FirstError(_)
FirstError(results) ==
    IF results = << >> THEN Ok
    ELSE IF Head(results) # Ok THEN Head(results)
    ELSE FirstError(Tail(results))

----------------------------------------------------------------------------
(* The instruction argument `minting_limit: u64`: eight little-endian      *)
(* bytes of the instruction data.  A u64 stays the eight bytes it is       *)
(* encoded as.                                                             *)

U64_LEN == 8

\* faulty variant: the argument is not required
ArgsUnchecked(ix_data) == Ok

ArgsDeserialize(ix_data) ==
    IF Len(ix_data) < U64_LEN THEN InstructionDidNotDeserialize ELSE Ok

MintingLimitArg(ix_data) == SubSeq(ix_data, 1, U64_LEN)

----------------------------------------------------------------------------
(* Account validation of `Initialize`                                      *)

\* authority: Signer
SignerTryAccounts(c) == IF c.is_signer THEN Ok ELSE AccountNotSigner

\* faulty variant: the mint is taken as an unchecked AccountInfo
MintUnchecked(l, a) == Ok

\* Account<token::Mint>: the account exists, the token program owns it, its data is a mint
MintTryAccounts(l, a) ==
    IF ~Exists(l, a) THEN AccountNotInitialized
    ELSE IF Owner(l, a) # TOKEN_PROGRAM THEN AccountOwnedByWrongProgram
    ELSE IF a \notin l.mints THEN InvalidAccountData
    ELSE Ok

\* faulty variant: the seeds constraint is left out
SeedsUnchecked(a, seeds, program) == Ok

\* seeds = [...], bump (and seeds::program where given): the presented key is the derived one
SeedsConstraint(a, seeds, program) ==
    IF a = FindProgramAddress(seeds, program).address THEN Ok ELSE ConstraintSeeds

\* the plain fields are deserialized first, in the order of the struct
DeserializeFields(l, c) ==
    FirstError(<< SignerTryAccounts(c),
                  MintTryAccounts(l, c.accounts.tbtc_mint),
                  MintTryAccounts(l, c.accounts.wrapped_tbtc_mint) >>)

\* faulty variant: init_if_needed, an account that exists is taken over
InitIfNeeded(l, a, seeds) == SeedsConstraint(a, seeds, GATEWAY)

\* `init` of an account at a derived address: the key is checked, then the account is
\* created, which the system program refuses at an address already in use
InitCheck(l, a, seeds) ==
    FirstError(<< SeedsConstraint(a, seeds, GATEWAY),
                  IF Exists(l, a) THEN AccountAlreadyInUse ELSE Ok >>)

\* custodian: init, payer = authority, seeds = [Custodian::SEED_PREFIX], bump
InitCustodian(l, c) ==
    LET e == InitCheck(l, c.accounts.custodian, CustodianSeeds)
    IN  [err |-> e,
         ledger |-> IF e # Ok THEN l
                    ELSE [l EXCEPT !.custodians =
                            @ \cup {[address |-> c.accounts.custodian, data |-> ZeroCustodian]}]]

\* faulty variant: the account at the escrow address is set up as a mint
InitWrappedTbtcTokenAsMint(l, c) ==
    LET e == InitCheck(l, c.accounts.wrapped_tbtc_token, WrappedTokenSeeds)
    IN  [err |-> e,
         ledger |-> IF e # Ok THEN l
                    ELSE [l EXCEPT !.mints = @ \cup {c.accounts.wrapped_tbtc_token}]]

\* faulty variant: token::authority = custodian
InitWrappedTbtcTokenOfCustodian(l, c) ==
    LET e == InitCheck(l, c.accounts.wrapped_tbtc_token, WrappedTokenSeeds)
    IN  [err |-> e,
         ledger |-> IF e # Ok THEN l
                    ELSE [l EXCEPT !.tokens =
                            @ \cup {[address |-> c.accounts.wrapped_tbtc_token,
                                     mint |-> c.accounts.wrapped_tbtc_mint,
                                     authority |-> c.accounts.custodian]}]]

\* wrapped_tbtc_token: init, token::mint = wrapped_tbtc_mint, token::authority = authority
InitWrappedTbtcToken(l, c) ==
    LET e == InitCheck(l, c.accounts.wrapped_tbtc_token, WrappedTokenSeeds)
    IN  [err |-> e,
         ledger |-> IF e # Ok THEN l
                    ELSE [l EXCEPT !.tokens =
                            @ \cup {[address |-> c.accounts.wrapped_tbtc_token,
                                     mint |-> c.accounts.wrapped_tbtc_mint,
                                     authority |-> c.accounts.authority]}]]

\* faulty variant: wrapped_tbtc_mint carries no seeds constraint
AccessChecksNoWrappedMint(c) ==
    FirstError(<< SeedsConstraint(c.accounts.tbtc_mint, TbtcMintSeeds, TBTC),
                  SeedsConstraint(c.accounts.token_bridge_sender, SenderSeeds, GATEWAY),
                  SeedsConstraint(c.accounts.token_bridge_redeemer, RedeemerSeeds, GATEWAY) >>)

\* the seeds constraints of the plain fields, checked after the `init` fields
AccessChecks(c) ==
    FirstError(<< SeedsConstraint(c.accounts.tbtc_mint, TbtcMintSeeds, TBTC),
                  SeedsConstraint(c.accounts.wrapped_tbtc_mint, WrappedMintSeeds, GATEWAY),
                  SeedsConstraint(c.accounts.token_bridge_sender, SenderSeeds, GATEWAY),
                  SeedsConstraint(c.accounts.token_bridge_redeemer, RedeemerSeeds, GATEWAY) >>)

\* ctx.bumps: the bump found for every field that has a `bump` constraint, under the
\* name of the field
Bumps ==
    [name \in Roles |->
        CASE name = "custodian" -> CustodianPda.bump
          [] name = "tbtc_mint" -> TbtcMintPda.bump
          [] name = "wrapped_tbtc_mint" -> WrappedMintPda.bump
          [] name = "wrapped_tbtc_token" -> WrappedTokenPda.bump
          [] name = "token_bridge_sender" -> SenderPda.bump
          [] name = "token_bridge_redeemer" -> RedeemerPda.bump]

\* Initialize::try_accounts: the validated context, or the error, with the accounts the
\* `init` constraints created
TryAccounts(l, c) ==
    LET e1 == DeserializeFields(l, c)
        r2 == InitCustodian(l, c)
        r3 == InitWrappedTbtcToken(r2.ledger, c)
        e4 == AccessChecks(c)
    IN  IF e1 # Ok THEN [err |-> e1, ledger |-> l]
        ELSE IF r2.err # Ok THEN [err |-> r2.err, ledger |-> l]
        ELSE IF r3.err # Ok THEN [err |-> r3.err, ledger |-> r2.ledger]
        ELSE [err |-> e4, ledger |-> r3.ledger]

----------------------------------------------------------------------------
(* The handler `initialize`                                                *)

\* what indexing ctx.bumps yields for a name that is not in the map: no bump at all
\* (the index panics); a bump is a u8
NoBump == MAX_BUMP + 1

\* ctx.bumps[name]
BumpsIndex(bumps, name) == IF name \in DOMAIN bumps THEN bumps[name] ELSE NoBump

Context(c) == [accounts |-> c.accounts, bumps |-> Bumps]

\* the Custodian { ... } literal handed to set_inner, field by field as written
Custodian(ctx, minting_limit) ==
    [bump |-> BumpsIndex(ctx.bumps, "config"),
     authority |-> ctx.accounts.authority,
     tbtc_mint |-> ctx.accounts.tbtc_mint,
     wrapped_tbtc_mint |-> ctx.accounts.wrapped_tbtc_mint,
     wrapped_tbtc_token |-> ctx.accounts.wrapped_tbtc_token,
     token_bridge_sender |-> ctx.accounts.token_bridge_sender,
     token_bridge_sender_bump |-> BumpsIndex(ctx.bumps, "token_bridge_sender"),
     token_bridge_redeemer |-> ctx.accounts.token_bridge_sender,
     token_bridge_redeemer_bump |-> BumpsIndex(ctx.bumps, "token_bridge_redeemer"),
     minting_limit |-> minting_limit]

\* evaluating the literal panics when one of its bump lookups does
LiteralPanics(rec) ==
    NoBump \in {rec.bump, rec.token_bridge_sender_bump, rec.token_bridge_redeemer_bump}

\* Account::set_inner, written back to the account when the instruction exits
SetInner(l, a, rec) ==
    [l EXCEPT !.custodians = {IF x.address = a THEN [x EXCEPT !.data = rec] ELSE x : x \in @}]

initialize(l, ctx, minting_limit) ==
    LET rec == Custodian(ctx, minting_limit)
    IN  IF LiteralPanics(rec)
        THEN [err |-> ProgramFailedToComplete, ledger |-> l]
        ELSE [err |-> Ok, ledger |-> SetInner(l, ctx.accounts.custodian, rec)]

\* the instruction from entry to exit: arguments, accounts, handler.  `ledger` is the
\* transaction's working copy, with whatever was written before an error
Execute(l, c) ==
    LET v == TryAccounts(l, c)
    IN  IF ArgsDeserialize(c.ix_data) # Ok
        THEN [err |-> ArgsDeserialize(c.ix_data), ledger |-> l]
        ELSE IF v.err # Ok THEN v
        ELSE initialize(v.ledger, Context(c), MintingLimitArg(c.ix_data))

\* faulty variant: the writes of a failed transaction are kept
CommitPartial(l, r) == r.ledger

\* a transaction is atomic: the working copy becomes the ledger only on Ok
Commit(l, r) == IF r.err = Ok THEN r.ledger ELSE l

----------------------------------------------------------------------------
(* Calls                                                                   *)

\* 1_000_000 and u64::MAX, little-endian; the empty data is a call without the argument
IxDatas ==
    { << >>,
      << 64, 66, 15, 0, 0, 0, 0, 0 >>,
      << 255, 255, 255, 255, 255, 255, 255, 255 >> }

Presentable ==
    [authority : Wallets,
     custodian : {CustodianPda.address, Vacant},
     tbtc_mint : {TbtcMintPda.address, OtherMint, Vacant},
     wrapped_tbtc_mint : {WrappedMintPda.address, BridgeWrappedMintPda.address, Vacant},
     wrapped_tbtc_token : {WrappedTokenPda.address, Vacant},
     token_bridge_sender : {SenderPda.address, BridgeSenderPda.address},
     token_bridge_redeemer : {RedeemerPda.address, BridgeRedeemerPda.address, SenderPda.address}]

WrongRoles(accounts) == {r \in Roles : accounts[r] # Derived(r)}

\* in how many ways a call departs from the call that presents every derived address,
\* signed, with its argument
Departures(c) ==
    Cardinality(WrongRoles(c.accounts))
    + (IF c.is_signer THEN 0 ELSE 1)
    + (IF Len(c.ix_data) >= U64_LEN THEN 0 ELSE 1)

Calls ==
    {c \in [is_signer : BOOLEAN, ix_data : IxDatas, accounts : Presentable] :
        Departures(c) <= MaxWrong}

NoCall ==
    [is_signer |-> FALSE, ix_data |-> << >>,
     accounts |-> [r \in Roles \cup {"authority"} |-> NoAddress]]

\* a call as the deployment's operator would make it: signed, with a limit, presenting
\* the derived address for every role
CorrectCall(c) ==
    /\ c.is_signer
    /\ Len(c.ix_data) >= U64_LEN
    /\ WrongRoles(c.accounts) = {}

----------------------------------------------------------------------------
(* State                                                                   *)

VARIABLES
    ledger,     \* the accounts that exist
    pre,        \* the ledger the last transaction started from
    call,       \* the last Initialize transaction, NoCall if the last step was none
    outcome,    \* its outcome
    attempts,   \* correct Initialize calls made with both mints in place
    commits     \* Initialize transactions that ended Ok

vars == << ledger, pre, call, outcome, attempts, commits >>

None == "None"

\* what exists before the gateway is initialized: the bridge's wrapped mint and an
\* unrelated mint
DeployedLedger ==
    [EmptyLedger EXCEPT !.mints = {BridgeWrappedMintPda.address, OtherMint}]

Init ==
    /\ ledger = DeployedLedger
    /\ pre = DeployedLedger
    /\ call = NoCall
    /\ outcome = None
    /\ attempts = 0
    /\ commits = 0

PrerequisitesMet(l) == {TbtcMintPda.address, WrappedMintPda.address} \subseteq l.mints

\* one Initialize transaction
Initialize ==
    /\ commits < MaxCommits
    /\ \E c \in Calls :
        /\ (CorrectCall(c) /\ PrerequisitesMet(ledger)) => attempts < MaxAttempts
        /\ LET r == Execute(ledger, c)
           IN  /\ ledger' = Commit(ledger, r)
               /\ pre' = ledger
               /\ call' = c
               /\ outcome' = r.err
               /\ attempts' = IF CorrectCall(c) /\ PrerequisitesMet(ledger)
                              THEN attempts + 1 ELSE attempts
               /\ commits' = IF r.err = Ok THEN commits + 1 ELSE commits

\* a mint comes to exist at one of the addresses Initialize reads.  Which program can
\* create an account at the wrapped mint address the constraint derives is not decided
\* here: the environment is taken at its most permissive
ExternalMint ==
    /\ \E a \in {TbtcMintPda.address, WrappedMintPda.address} :
        /\ a \notin ledger.mints
        /\ ledger' = [ledger EXCEPT !.mints = @ \cup {a}]
    /\ pre' = ledger'
    /\ call' = NoCall
    /\ outcome' = None
    /\ UNCHANGED << attempts, commits >>

Next == Initialize \/ ExternalMint

Spec == Init /\ [][Next]_vars

----------------------------------------------------------------------------
(* The instruction as a function of the ledger it finds: the ledger of the *)
(* first state is drawn from the ledgers of a fresh deployment and of a    *)
(* deployment whose custodian and escrow accounts were written under the   *)
(* same program id before.                                                 *)

Limits == {d \in IxDatas : Len(d) >= U64_LEN}

DeployedCustodian(a, lim) ==
    [bump |-> CustodianPda.bump,
     authority |-> a,
     tbtc_mint |-> TbtcMintPda.address,
     wrapped_tbtc_mint |-> WrappedMintPda.address,
     wrapped_tbtc_token |-> WrappedTokenPda.address,
     token_bridge_sender |-> SenderPda.address,
     token_bridge_sender_bump |-> SenderPda.bump,
     token_bridge_redeemer |-> RedeemerPda.address,
     token_bridge_redeemer_bump |-> RedeemerPda.bump,
     minting_limit |-> lim]

CommittedLedger(a, lim) ==
    [mints |-> DeployedLedger.mints \cup {TbtcMintPda.address, WrappedMintPda.address},
     tokens |-> {[address |-> WrappedTokenPda.address,
                  mint |-> WrappedMintPda.address,
                  authority |-> a]},
     custodians |-> {[address |-> CustodianPda.address, data |-> DeployedCustodian(a, lim)]}]

InitLedger ==
    /\ ledger \in {DeployedLedger} \cup {CommittedLedger(a, lim) : a \in Wallets, lim \in Limits}
    /\ pre = ledger
    /\ call = NoCall
    /\ outcome = None
    /\ attempts = 0
    /\ commits = 0

SpecLedger == InitLedger /\ [][Next]_vars

----------------------------------------------------------------------------
(* Vocabulary of the properties                                            *)

Uninitialized(l) == CustodianPda.address \notin CustodianAddresses(l)
Committed(l) == CustodianPda.address \in CustodianAddresses(l)

\* the custodian records stored at the custodian address
Records(l) == {x.data : x \in {y \in l.custodians : y.address = CustodianPda.address}}

\* the last step was an Initialize transaction
Called == call # NoCall

\* a call that is signed and carries its argument
WellFormed(c) == c.is_signer /\ Len(c.ix_data) >= U64_LEN

\* the failure conditions of the design, by the error that reports them
Condition(e) ==
    CASE e = ConstraintSeeds -> "DerivationMismatch"
      [] e = AccountNotInitialized -> "PrerequisiteNotInitialized"
      [] e = AccountAlreadyInUse -> "AlreadyInitialized"
      [] e = InstructionDidNotDeserialize -> "InvalidConfiguration"
      [] e = Ok -> "Ok"
      [] OTHER -> "Fault"

NamedConditions ==
    {"DerivationMismatch", "PrerequisiteNotInitialized", "AlreadyInitialized",
     "InvalidConfiguration"}

\* the escrow token account exists
EscrowExists(l) == WrappedTokenPda.address \in TokenAddresses(l)

\* the call presents another account for exactly this role and is correct otherwise
OnlyWrong(c, role) == WellFormed(c) /\ WrongRoles(c.accounts) = {role}

MintRoles == {"tbtc_mint", "wrapped_tbtc_mint"}

----------------------------------------------------------------------------
(* C1 *)

\* C1: from Uninitialized, with the mints in place, a correct call with limit L ends Ok
\* and the record at the custodian address holds minting_limit = L; at most one call of a
\* behaviour ends Ok.
C1_SucceedsOnce ==
    /\ (Called /\ CorrectCall(call) /\ PrerequisitesMet(pre) /\ Uninitialized(pre))
          => /\ outcome = Ok
             /\ Records(ledger) # {}
             /\ \A r \in Records(ledger) : r.minting_limit = MintingLimitArg(call.ix_data)
    /\ commits <= 1

----------------------------------------------------------------------------
(* C3 *)

----------------------------------------------------------------------------
(* C4 *)

\* C4: a signed call with its argument that presents the native mint's derived address
\* while no account exists there fails with PrerequisiteNotInitialized, whatever it
\* presents for the other roles, and creates neither the custodian record nor the escrow
\* token account.
C4_MintMissing ==
    (/\ Called
     /\ WellFormed(call)
     /\ call.accounts.tbtc_mint = TbtcMintPda.address
     /\ ~Exists(pre, TbtcMintPda.address))
        => /\ Condition(outcome) = "PrerequisiteNotInitialized"
           /\ ledger = pre
           /\ Uninitialized(ledger)
           /\ ~EscrowExists(ledger)

C4_Witness ==
    /\ Called
    /\ CorrectCall(call)
    /\ ~Exists(pre, TbtcMintPda.address)
    /\ outcome = AccountNotInitialized
    /\ Uninitialized(ledger)
    /\ ~EscrowExists(ledger)

----------------------------------------------------------------------------
(* C2 *)

ReachesCreation(l, c) ==
    /\ WellFormed(c)
    /\ {c.accounts.tbtc_mint, c.accounts.wrapped_tbtc_mint} \subseteq l.mints
    /\ c.accounts.custodian = CustodianPda.address

----------------------------------------------------------------------------
(* C5 *)

\* the call passed argument decoding and account validation: the handler runs on it
Validated(l, c) == ArgsDeserialize(c.ix_data) = Ok /\ TryAccounts(l, c).err = Ok

\* every reference field of the record is the address derived for the field's own role
ReferencesDerived(rec) ==
    /\ rec.tbtc_mint = Derived("tbtc_mint")
    /\ rec.wrapped_tbtc_mint = Derived("wrapped_tbtc_mint")
    /\ rec.wrapped_tbtc_token = Derived("wrapped_tbtc_token")
    /\ rec.token_bridge_sender = Derived("token_bridge_sender")
    /\ rec.token_bridge_redeemer = Derived("token_bridge_redeemer")

\* C5: every custodian record of the program stores, in each reference field, the
\* address derived for that field's role: the records in the ledger, and the record the
\* handler builds from a validated call to write it.
C5_ReferencesDerived ==
    /\ \A r \in Records(ledger) : ReferencesDerived(r)
    /\ (Called /\ Validated(pre, call))
          => ReferencesDerived(Custodian(Context(call), MintingLimitArg(call.ix_data)))

----------------------------------------------------------------------------
(* C6 *)

\* C6: when two or more correct Initialize calls are made for the custodian address, in
\* any order, exactly one of them commits, and the ledger holds exactly one record.
C6_ExactlyOneCommits ==
    attempts >= 2 => (commits = 1 /\ Cardinality(Records(ledger)) = 1)

----------------------------------------------------------------------------
(* C7 *)

\* C7: a call never leaves Committed; a failing call leaves the ledger as it found it;
\* and after a correct call was made before, a correct call from Uninitialized with the
\* mints in place commits.
C7_FlowCommits ==
    /\ (Called /\ Committed(pre)) => Committed(ledger)
    /\ (Called /\ outcome # Ok) => ledger = pre
    /\ (/\ Called
        /\ CorrectCall(call)
        /\ PrerequisitesMet(pre)
        /\ Uninitialized(pre)
        /\ attempts >= 2)
          => (outcome = Ok /\ Committed(ledger))

----------------------------------------------------------------------------
(* C8 *)

\* C8: in every state the custodian record exists exactly when the escrow token account
\* does, and no custodian account is left as `init` allocated it, without its record.
C8_AllOrNothing ==
    /\ Committed(ledger) <=> EscrowExists(ledger)
    /\ \A x \in ledger.custodians : x.data # ZeroCustodian

\* a transaction that had created the custodian account when it failed
C8_Witness ==
    /\ Called
    /\ outcome # Ok
    /\ Committed(Execute(pre, call).ledger)
    /\ Uninitialized(ledger)
    /\ ~EscrowExists(ledger)

----------------------------------------------------------------------------
(* C9 *)

\* a u64: eight bytes
InRange(v) == Len(v) = U64_LEN /\ \A i \in 1..Len(v) : v[i] \in 0..255

\* C9: a call without its minting limit fails with InvalidConfiguration and writes
\* nothing, so no record appears; the minting_limit of every record is a u64.
C9_LimitRequired ==
    /\ (Called /\ Len(call.ix_data) < U64_LEN)
          => /\ Condition(outcome) = "InvalidConfiguration"
             /\ ledger = pre
             /\ Uninitialized(pre) => Uninitialized(ledger)
    /\ \A r \in Records(ledger) : InRange(r.minting_limit)

C9_Witness ==
    /\ Called
    /\ call.is_signer
    /\ WrongRoles(call.accounts) = {}
    /\ call.ix_data = << >>
    /\ PrerequisitesMet(pre)
    /\ outcome = InstructionDidNotDeserialize
    /\ Uninitialized(ledger)

----------------------------------------------------------------------------
(* C10 *)

\* C10: every failing signed call reports one of the four named conditions, and a
\* correct call from Uninitialized with the mints in place does not fail.
C10_NamedConditions ==
    /\ (Called /\ call.is_signer /\ outcome # Ok) => Condition(outcome) \in NamedConditions
    /\ (Called /\ CorrectCall(call) /\ PrerequisitesMet(pre) /\ Uninitialized(pre))
          => outcome = Ok

----------------------------------------------------------------------------
(* C11 *)

\* the record the handler builds for a call
Built(c) == Custodian(Context(c), MintingLimitArg(c.ix_data))

\* the wrapped mint addresses that some call is accepted with on this ledger
AcceptedWrappedMints(l) ==
    {c.accounts.wrapped_tbtc_mint : c \in {d \in Calls : Validated(l, d)}}

\* C11: whatever the authority, the minting limit and the accounts presented, the
\* wrapped mint a call is accepted with, and that the handler puts in the record, is the
\* one address derived from the constant chain id and token address: on no ledger do two
\* calls get different wrapped mints accepted.
C11_WrappedMintFixed ==
    /\ AcceptedWrappedMints(ledger)
          \subseteq {FindProgramAddress(
                        << WRAPPED_MINT_SEED_PREFIX, << TBTC_FOREIGN_TOKEN_CHAIN >>,
                           TBTC_FOREIGN_TOKEN_ADDRESS >>, GATEWAY).address}
    /\ \A c \in Calls :
          Validated(ledger, c)
              => Built(c).wrapped_tbtc_mint \in AcceptedWrappedMints(ledger)
    /\ \A r \in Records(ledger) : {r.wrapped_tbtc_mint} = AcceptedWrappedMints(pre)

\* two accepted calls that differ in authority and limit
C11_Witness ==
    /\ Called
    /\ Validated(pre, call)
    /\ \E c \in Calls :
          /\ Validated(pre, c)
          /\ c.accounts.authority # call.accounts.authority
          /\ c.ix_data # call.ix_data
          /\ Built(c).wrapped_tbtc_mint = Built(call).wrapped_tbtc_mint

----------------------------------------------------------------------------
(* C12 *)

\* the accounts of the external collaborators a call refers to
Collaborators(c) ==
    {c.accounts.tbtc_mint, c.accounts.wrapped_tbtc_mint,
     c.accounts.token_bridge_sender, c.accounts.token_bridge_redeemer}

\* ledger w differs from ledger l at most by a custodian account and an escrow token
\* account at the addresses call c presents for them
OnlyOwnAccounts(l, w, c) ==
    /\ w.mints = l.mints
    /\ \A a \in Collaborators(c) : Exists(w, a) = Exists(l, a)
    /\ l.tokens \subseteq w.tokens
    /\ l.custodians \subseteq w.custodians
    /\ TokenAddresses(w) \ TokenAddresses(l) \subseteq {c.accounts.wrapped_tbtc_token}
    /\ CustodianAddresses(w) \ CustodianAddresses(l) \subseteq {c.accounts.custodian}

\* C12: after any Initialize call, failed or not, the mints and the bridge sender and
\* redeemer accounts are as before; everything the call writes, in the ledger it leaves
\* and in the transaction it ran in, is a custodian account and an escrow token account
\* at the addresses presented, and accounts that existed before are untouched.
C12_ReadsCollaborators ==
    Called =>
        /\ OnlyOwnAccounts(pre, ledger, call)
        /\ OnlyOwnAccounts(pre, Execute(pre, call).ledger, call)

\* a call that created both of its accounts, on a ledger with both mints
C12_Witness ==
    /\ Called
    /\ PrerequisitesMet(pre)
    /\ CustodianAddresses(Execute(pre, call).ledger) # CustodianAddresses(pre)
    /\ TokenAddresses(Execute(pre, call).ledger) # TokenAddresses(pre)
    /\ ledger.mints = pre.mints

----------------------------------------------------------------------------
(* C14 *)

\* the addresses of the three bridge roles, derived under the bridge program
BridgeDerived(role) ==
    CASE role = "wrapped_tbtc_mint" -> BridgeWrappedMintPda.address
      [] role = "token_bridge_sender" -> BridgeSenderPda.address
      [] role = "token_bridge_redeemer" -> BridgeRedeemerPda.address

BridgeRoles == {"wrapped_tbtc_mint", "token_bridge_sender", "token_bridge_redeemer"}

\* C14: a call passes validation only if its wrapped mint, bridge sender and bridge
\* redeemer are each the address derived from the role's seeds under the bridge program
\* (so an address derived from the same seeds under the gateway program is rejected), and
\* a call that presents the bridge-derived address in one of these roles is not turned
\* down for a derivation mismatch.
C14_BridgeNamespace ==
    Called =>
        /\ Validated(pre, call)
              => \A role \in BridgeRoles : call.accounts[role] = BridgeDerived(role)
        /\ \A role \in BridgeRoles :
              (WellFormed(call) /\ call.accounts[role] = BridgeDerived(role)
                 /\ \A other \in Roles \ BridgeRoles : call.accounts[other] = Derived(other))
                  => outcome # ConstraintSeeds

----------------------------------------------------------------------------
(* C15 *)

\* the address and bump stored for the bridge sender and for the bridge redeemer are each
\* a pair that the role's seeds reproduce under this program
PairsReprove(rec, program) ==
    /\ CreateProgramAddress(SenderSeeds, rec.token_bridge_sender_bump, program)
          = rec.token_bridge_sender
    /\ CreateProgramAddress(RedeemerSeeds, rec.token_bridge_redeemer_bump, program)
          = rec.token_bridge_redeemer

\* C15: in a stored record, and in the record the handler builds for a validated call,
\* deriving from the sender seeds with the stored sender bump gives the stored sender
\* address, and deriving from the redeemer seeds with the stored redeemer bump gives the
\* stored redeemer address (in the gateway's namespace or in the bridge's).
C15_PairsReprove ==
    /\ \A r \in Records(ledger) :
          PairsReprove(r, GATEWAY) \/ PairsReprove(r, TOKEN_BRIDGE)
    /\ (Called /\ Validated(pre, call))
          => \/ PairsReprove(Built(call), GATEWAY)
             \/ PairsReprove(Built(call), TOKEN_BRIDGE)

----------------------------------------------------------------------------
(* C16 *)

\* C16: for a validated call every bump the handler looks up is in ctx.bumps under the
\* name it is looked up by, so the handler ends Ok, and the bump field of the record is
\* the bump derived for the custodian address.
C16_BuilderTotal ==
    (Called /\ Validated(pre, call))
        => /\ ~LiteralPanics(Built(call))
           /\ Built(call).bump = FindProgramAddress(CustodianSeeds, GATEWAY).bump
           /\ outcome = Ok

----------------------------------------------------------------------------
(* C17 *)

\* C17: the authority of a record is the signer of the call that wrote it: from
\* Uninitialized, a validated call, whoever signs it, leaves a record at the custodian
\* address whose authority is its signer; a call whose authority did not sign leaves the
\* ledger as it was.
C17_SignerBecomesAuthority ==
    /\ (Called /\ Validated(pre, call))
          => /\ call.is_signer
             /\ Built(call).authority = call.accounts.authority
    /\ (Called /\ Validated(pre, call) /\ Uninitialized(pre))
          => /\ Committed(ledger)
             /\ \A r \in Records(ledger) : r.authority = call.accounts.authority
    /\ (Called /\ ~call.is_signer) => (outcome # Ok /\ ledger = pre)

----------------------------------------------------------------------------
(* C18 *)

\* the token accounts at the address the record names as its escrow
EscrowOf(l, rec) == {t \in l.tokens : t.address = rec.wrapped_tbtc_token}

\* C18: for a validated call, the token account the call creates at the address the
\* record names as wrapped_tbtc_token is of the mint the record names as
\* wrapped_tbtc_mint, and its authority is the record's authority, the signer, not the
\* custodian address.
C18_EscrowOfSigner ==
    (Called /\ Validated(pre, call))
        => /\ EscrowOf(TryAccounts(pre, call).ledger, Built(call)) # {}
           /\ \A t \in EscrowOf(TryAccounts(pre, call).ledger, Built(call)) :
                 /\ t.mint = Built(call).wrapped_tbtc_mint
                 /\ t.authority = Built(call).authority
                 /\ t.authority = call.accounts.authority
                 /\ t.authority # call.accounts.custodian

\* a validated call by the second wallet, with its escrow created
C18_Witness ==
    /\ Called
    /\ Validated(pre, call)
    /\ call.accounts.authority = Bob
    /\ \E t \in TryAccounts(pre, call).ledger.tokens :
          t.address = WrappedTokenPda.address /\ t.authority = Bob

====
